---- MODULE Spec2Model ----
(***************************************************************************)
(* A model of hike (src/src/lib.rs): the Server configuration setters, the *)
(* accept loop of Server::run, the per-connection handler                  *)
(* Server::handle_connection and the path resolver Server::get_path,       *)
(* together with the parts of their environment they observe: the file     *)
(* system, the peers of the accepted connections and the callbacks.        *)
(*                                                                         *)
(* Text and byte strings are sequences of one-character strings.  "NUL" is *)
(* the zero byte, "xFF" a byte that is never valid UTF-8, "xEF" "xBF"      *)
(* "xBD" the three bytes that encode U+FFFD, and "U+FFFD" that character.  *)
(***************************************************************************)
EXTENDS Integers, Sequences, FiniteSets, TLC

(***************************************************************************)
(* Bounds of the model.                                                    *)
(***************************************************************************)
\* connections the accept loop takes
MaxConn == 2
\* settings of the Server the host program changes from their defaults
MaxSettings == 2
\* changes other processes make to the file system
MaxFsChanges == 1
\* bytes by which one write call may fall short of the buffer it was given
MaxShortfall == 1
\* length of the handler's read buffer ([0; 512] in the source, scaled down)
BufSize == 8
\* length of the served text the substitution is tried on
MaxText == 4

\* how many times the surroundings of the server fail: a client resets its
\* connection, or the standard error stream stops taking output
MaxFaults == 1

(***************************************************************************)
(* Strings.                                                                *)
(***************************************************************************)
NUL == "NUL"
REPLACEMENT == "U+FFFD"

\* char::is_whitespace, on the characters of the model
IsWhitespace(c) == c \in {" ", "\t", "\n", "\r"}

Last(s) == s[Len(s)]

\* [c; n]
Repeat(c, n) == [i \in 1..n |-> c]

\* the pattern pat occurs in s at index i
MatchesAt(s, pat, i) ==
    /\ i >= 1
    /\ i + Len(pat) - 1 <= Len(s)
    /\ \A k \in 1..Len(pat) : s[i + k - 1] = pat[k]

\* str::contains
Contains(s, pat) == \E i \in 1..(Len(s) + 1) : MatchesAt(s, pat, i)

\* str::replace for the empty pattern: it matches at every character boundary
RECURSIVE ReplaceEmpty(_, _, _)
ReplaceEmpty(s, to, i) ==
    IF i > Len(s) THEN to
    ELSE to \o <<s[i]>> \o ReplaceEmpty(s, to, i + 1)

\* str::replace from index i on: the matches are found left to right and do
\* not overlap
RECURSIVE ReplaceFrom(_, _, _, _)
ReplaceFrom(s, pat, to, i) ==
    IF i > Len(s) THEN <<>>
    ELSE IF MatchesAt(s, pat, i)
         THEN to \o ReplaceFrom(s, pat, to, i + Len(pat))
         ELSE <<s[i]>> \o ReplaceFrom(s, pat, to, i + 1)

\* a replace that stops after the first match
RECURSIVE ReplaceFirstFrom(_, _, _, _)
ReplaceFirstFrom(s, pat, to, i) ==
    IF i > Len(s) THEN <<>>
    ELSE IF MatchesAt(s, pat, i)
         THEN to \o SubSeq(s, i + Len(pat), Len(s))
         ELSE <<s[i]>> \o ReplaceFirstFrom(s, pat, to, i + 1)

ReplaceFirst(s, pat, to) ==
    IF pat = <<>> THEN to \o s ELSE ReplaceFirstFrom(s, pat, to, 1)

\* str::replace
Replace(s, pat, to) ==
    IF pat = <<>> THEN ReplaceEmpty(s, to, 1) ELSE ReplaceFrom(s, pat, to, 1)

\* String::from_utf8_lossy from index i on: an invalid sequence becomes
\* U+FFFD, one for each maximal invalid part
RECURSIVE DecodeFrom(_, _)
DecodeFrom(b, i) ==
    IF i > Len(b) THEN <<>>
    ELSE IF b[i] = "xEF"
         THEN IF i + 1 <= Len(b) /\ b[i + 1] = "xBF"
              THEN IF i + 2 <= Len(b) /\ b[i + 2] = "xBD"
                   THEN <<REPLACEMENT>> \o DecodeFrom(b, i + 3)
                   ELSE <<REPLACEMENT>> \o DecodeFrom(b, i + 2)
              ELSE <<REPLACEMENT>> \o DecodeFrom(b, i + 1)
         ELSE IF b[i] \in {"xFF", "xBF", "xBD"}
              THEN <<REPLACEMENT>> \o DecodeFrom(b, i + 1)
              ELSE <<b[i]>> \o DecodeFrom(b, i + 1)

\* a decoding that takes every byte for a character
from_utf8_unchecked(b) == b

\* String::from_utf8_lossy
from_utf8_lossy(b) == DecodeFrom(b, 1)

\* str::as_bytes: the UTF-8 encoding of the text
RECURSIVE as_bytes(_)
as_bytes(s) ==
    IF s = <<>> THEN <<>>
    ELSE (IF Head(s) = REPLACEMENT THEN <<"xEF", "xBF", "xBD">> ELSE <<Head(s)>>)
         \o as_bytes(Tail(s))

\* str::split_whitespace from index i on, tok being the token read so far
RECURSIVE SplitFrom(_, _, _)
SplitFrom(s, i, tok) ==
    IF i > Len(s) THEN (IF tok = <<>> THEN <<>> ELSE <<tok>>)
    ELSE IF IsWhitespace(s[i])
         THEN (IF tok = <<>> THEN <<>> ELSE <<tok>>) \o SplitFrom(s, i + 1, <<>>)
         ELSE SplitFrom(s, i + 1, Append(tok, s[i]))

\* str::split_whitespace, collected
split_whitespace(s) == SplitFrom(s, 1, <<>>)

(***************************************************************************)
(* The file system.  A path is a string; an entry is absent, a directory   *)
(* or a file with its bytes.                                               *)
(***************************************************************************)
Absent == [kind |-> "absent", bytes |-> <<>>]
Dir == [kind |-> "dir", bytes |-> <<>>]
File(b) == [kind |-> "file", bytes |-> b]

StripSlash(p) ==
    IF Len(p) > 1 /\ Last(p) = "/" THEN SubSeq(p, 1, Len(p) - 1) ELSE p

\* what a path names on disk d: a trailing separator names the directory
\* before it, and nothing when that is not a directory
Lookup(d, p) ==
    IF p \in DOMAIN d THEN d[p]
    ELSE IF StripSlash(p) # p /\ StripSlash(p) \in DOMAIN d /\ d[StripSlash(p)] = Dir
         THEN Dir
         ELSE Absent

\* fs::metadata(p).is_ok()
MetadataOk(d, p) == Lookup(d, p) # Absent

\* fs::metadata(p).unwrap().is_dir(), where the metadata call succeeds
IsDir(d, p) == Lookup(d, p) = Dir

\* fs::read(p): Ok with the bytes of a file, Err for anything else
FsRead(d, p) ==
    IF Lookup(d, p).kind = "file"
    THEN [ok |-> TRUE, bytes |-> Lookup(d, p).bytes]
    ELSE [ok |-> FALSE, bytes |-> <<>>]

\* p is q or lies below the directory q
Below(p, q) ==
    \/ p = q
    \/ Len(p) > Len(q) + 1 /\ SubSeq(p, 1, Len(q) + 1) = q \o <<"/">>

\* the disk after another process made p an entry e: what lay below p is gone
Changed(d, p, e) ==
    [q \in DOMAIN d |-> IF q = p THEN e ELSE IF Below(q, p) THEN Absent ELSE d[q]]

\* the disk the program starts on
InitialDisk ==
    (<<".">> :> Dir)
    @@ (<<".", "/", "i", "n", "d", "e", "x", ".", "h", "t", "m", "l">>
            :> File(<<"a", "a">>))
    @@ (<<".", "/", "a">> :> File(<<"x", "xFF">>))
    @@ (<<".", "/", "d">> :> Dir)
    @@ (<<".", "/", "d", "/", "i", "n", "d", "e", "x", ".", "h", "t", "m", "l">> :> File(<<"d">>))
    @@ (<<"w">> :> Dir)
    @@ (<<"w", "/", "a">> :> File(<<"w">>))
    @@ (<<"f">> :> File(<<"f">>))
    @@ (<<"n">> :> Absent)

\* the paths other processes change while the program runs, and the entries
\* they put there
VolatilePaths == {<<"f">>, <<".", "/", "d">>}
NewEntries == {Absent, Dir}

(***************************************************************************)
(* What the host program passes to the setters.                            *)
(***************************************************************************)
RootDirs == {<<"w">>, <<"f">>, <<"n">>}
StdPages == {<<"a">>}

Anchor(m, f) == [marker |-> m, function |-> f]
DynamicPage(u, a) == [url |-> u, anchors |-> a]

DynamicPages ==
    { DynamicPage(<<"/">>, <<Anchor(<<"a">>, "f"), Anchor(<<"c">>, "g")>>),
      DynamicPage(<<"/">>, <<Anchor(<<"c">>, "g")>>),
      DynamicPage(<<"/", "a">>, <<Anchor(<<"c">>, "g")>>),
      DynamicPage(<<"/", "m">>, <<Anchor(<<>>, "f")>>) }

\* what a callback may return when it is invoked
Outputs == {<<>>, <<"a">>, <<"c">>}

(***************************************************************************)
(* What the clients send.                                                  *)
(***************************************************************************)
Requests ==
    { <<"G", " ", "/", " ", "H", "\r", "\n">>,
      <<"G", " ", "/", "a", " ", "H", "\r", "\n">>,
      <<"G", " ", "/", "d", " ", "H", "\r", "\n">>,
      <<"G", " ", "/", "d", "/", " ", "H", "\n">>,
      <<"G", " ", "/", "m", " ", "H", "\r", "\n">>,
      <<"G", " ", "/", "a">>,
      <<"G", " ">>,
      <<"G", " ", "/", " ", "H", "\n", "G", " ", "/", "a", " ", "H", "\n">> }

\* what a client sends after its first request was read
LaterRequests == { <<"G", " ", "/", "a", " ", "H", "\r", "\n">> }

(***************************************************************************)
(* The state.                                                              *)
(***************************************************************************)
VARIABLES
    phase,          \* where the host program is: "config", "root_dir" (inside
                    \* Server::root_dir, between its two metadata calls),
                    \* "serving" (inside Server::run) or "panicked"
    server,         \* the Server
    call,           \* the call of Server::root_dir that is running or has just
                    \* returned: its argument, the root before it, its result,
                    \* and whether the argument named a directory at any
                    \* moment of the call
    fs,             \* the disk
    changes,        \* changes other processes made to the disk so far
    pc,             \* per connection: where its handler is
    snap,           \* per connection: the handler's clone of the Server
    peer,           \* per connection: "none", "open", "closed" (the client
                    \* closed its end) or "reset" (the client reset the
                    \* connection)
    inbox,          \* per connection: bytes the client sent, not yet read
    bytes_read,     \* per connection: the bytes the handler's read returned
    url,            \* per connection: the handler's url
    path,           \* per connection: the handler's path
    http_result,    \* per connection: the handler's http_result
    file_read,      \* per connection: what fs::read returned
    file_contents,  \* per connection: the handler's file_contents
    calls,          \* per connection: the callbacks invoked, in order
    response,       \* per connection: the handler's response
    delivered,      \* per connection: the bytes written to the stream
    stderr,         \* the standard error stream of the process: "open", or
                    \* "broken" (a write to it fails, as on a pipe whose
                    \* reader is gone)
    faults          \* resets and breaks so far

config_vars == <<phase, server, call>>
disk_vars == <<fs, changes>>
conn_vars == <<peer, inbox, delivered>>
handler_vars ==
    <<pc, snap, bytes_read, url, path, http_result, file_read, file_contents,
      calls, response>>
env_vars == <<stderr, faults>>
vars == <<config_vars, disk_vars, conn_vars, handler_vars, env_vars>>

Conns == 1..MaxConn

\* Server::new
new(ip_address, tcp_port) ==
    [ip_address |-> ip_address,
     tcp_port |-> tcp_port,
     root_dir |-> <<".">>,
     debug |-> FALSE,
     std_page |-> <<"i", "n", "d", "e", "x", ".", "h", "t", "m", "l">>,
     dynamic_pages |-> <<>>]

NoCall == [arg |-> <<>>, before |-> <<>>, result |-> "none", ever_dir |-> FALSE]

Init ==
    /\ phase = "config"
    /\ server = new("127.0.0.1", 8080)
    /\ call = NoCall
    /\ fs = InitialDisk
    /\ changes = 0
    /\ pc = [h \in Conns |-> "none"]
    /\ snap = [h \in Conns |-> new("127.0.0.1", 8080)]
    /\ peer = [h \in Conns |-> "none"]
    /\ inbox = [h \in Conns |-> <<>>]
    /\ bytes_read = [h \in Conns |-> <<>>]
    /\ url = [h \in Conns |-> <<>>]
    /\ path = [h \in Conns |-> <<>>]
    /\ http_result = [h \in Conns |-> <<>>]
    /\ file_read = [h \in Conns |-> [ok |-> FALSE, bytes |-> <<>>]]
    /\ file_contents = [h \in Conns |-> <<>>]
    /\ calls = [h \in Conns |-> <<>>]
    /\ response = [h \in Conns |-> <<>>]
    /\ delivered = [h \in Conns |-> <<>>]
    /\ stderr = "open"
    /\ faults = 0

(***************************************************************************)
(* The setters of the Server, called by the host program before run.       *)
(***************************************************************************)
\* the settings of s that differ from those of a new Server
Settings(s) ==
    Len(s.dynamic_pages)
    + (IF s.debug THEN 1 ELSE 0)
    + (IF s.std_page # new(s.ip_address, s.tcp_port).std_page THEN 1 ELSE 0)
    + (IF s.root_dir # new(s.ip_address, s.tcp_port).root_dir THEN 1 ELSE 0)

\* Server::debug
debug(b) ==
    /\ phase = "config"
    /\ server' = [server EXCEPT !.debug = b]
    /\ Settings(server') <= MaxSettings
    /\ call' = NoCall
    /\ UNCHANGED <<env_vars, phase, disk_vars, conn_vars, handler_vars>>

\* Server::std_page
std_page(s) ==
    /\ phase = "config"
    /\ server' = [server EXCEPT !.std_page = s]
    /\ Settings(server') <= MaxSettings
    /\ call' = NoCall
    /\ UNCHANGED <<env_vars, phase, disk_vars, conn_vars, handler_vars>>

\* Server::insert_dynamic_page
insert_dynamic_page(dynamic_page) ==
    /\ phase = "config"
    /\ server' = [server EXCEPT !.dynamic_pages = Append(@, dynamic_page)]
    /\ Settings(server') <= MaxSettings
    /\ call' = NoCall
    /\ UNCHANGED <<env_vars, phase, disk_vars, conn_vars, handler_vars>>

\* Server::root_dir up to its first fs::metadata call: where that fails the
\* call returns Err("Does not exists. Not applied.")
root_dir(p) ==
    /\ phase = "config"
    /\ Settings([server EXCEPT !.root_dir = p]) <= MaxSettings
    /\ IF MetadataOk(fs, p)
       THEN /\ phase' = "root_dir"
            /\ call' = [arg |-> p, before |-> server.root_dir, result |-> "none",
                        ever_dir |-> IsDir(fs, p)]
       ELSE /\ phase' = "config"
            /\ call' = [arg |-> p, before |-> server.root_dir,
                        result |-> "Err: Does not exists", ever_dir |-> FALSE]
    /\ UNCHANGED <<env_vars, server, disk_vars, conn_vars, handler_vars>>

\* Server::root_dir from its second fs::metadata call on: unwrap panics where
\* that call fails
root_dir_is_dir ==
    /\ phase = "root_dir"
    /\ IF ~MetadataOk(fs, call.arg)
       THEN /\ phase' = "panicked"
            /\ call' = [call EXCEPT !.result = "panic"]
            /\ UNCHANGED server
       ELSE IF IsDir(fs, call.arg)
            THEN /\ phase' = "config"
                 /\ server' = [server EXCEPT !.root_dir = call.arg]
                 /\ call' = [call EXCEPT !.result = "Ok"]
            ELSE /\ phase' = "config"
                 /\ call' = [call EXCEPT !.result = "Err: Not a directory"]
                 /\ UNCHANGED server
    /\ UNCHANGED <<env_vars, disk_vars, conn_vars, handler_vars>>

(***************************************************************************)
(* Other processes change the disk at any moment.                          *)
(***************************************************************************)
fs_change(p, e) ==
    /\ changes < MaxFsChanges
    /\ fs[p] # e
    /\ fs' = Changed(fs, p, e)
    /\ changes' = changes + 1
    /\ call' = IF phase = "root_dir" /\ IsDir(fs', call.arg)
               THEN [call EXCEPT !.ever_dir = TRUE]
               ELSE call
    /\ UNCHANGED <<env_vars, phase, server, conn_vars, handler_vars>>

(***************************************************************************)
(* Server::run: the accept loop.                                           *)
(***************************************************************************)
\* Server::run up to its loop: the listener is bound
run ==
    /\ phase = "config"
    /\ phase' = "serving"
    /\ call' = NoCall
    /\ UNCHANGED <<env_vars, server, disk_vars, conn_vars, handler_vars>>

\* a loop that hands a new Server to the thread, not a clone of this one
accept_new_server(h) ==
    /\ phase = "serving"
    /\ pc[h] = "none"
    /\ \A g \in Conns : g < h => pc[g] # "none"
    /\ snap' = [snap EXCEPT ![h] = new(server.ip_address, server.tcp_port)]
    /\ pc' = [pc EXCEPT ![h] = "read"]
    /\ peer' = [peer EXCEPT ![h] = "open"]
    /\ UNCHANGED <<env_vars, config_vars, disk_vars, inbox, delivered, bytes_read, url, path,
                   http_result, file_read, file_contents, calls, response>>

\* one turn of the loop: a client connected, the stream is handed to a new
\* thread together with a clone of the Server
accept(h) ==
    /\ phase = "serving"
    /\ pc[h] = "none"
    /\ \A g \in Conns : g < h => pc[g] # "none"
    /\ snap' = [snap EXCEPT ![h] = server]
    /\ pc' = [pc EXCEPT ![h] = "read"]
    /\ peer' = [peer EXCEPT ![h] = "open"]
    /\ UNCHANGED <<env_vars, config_vars, disk_vars, inbox, delivered, bytes_read, url, path,
                   http_result, file_read, file_contents, calls, response>>

(***************************************************************************)
(* The clients.                                                            *)
(***************************************************************************)
client_send(h, req) ==
    /\ pc[h] = "read"
    /\ peer[h] = "open"
    /\ inbox[h] = <<>>
    /\ inbox' = [inbox EXCEPT ![h] = req]
    /\ UNCHANGED <<env_vars, config_vars, disk_vars, peer, delivered, handler_vars>>

client_close(h) ==
    /\ pc[h] = "read"
    /\ peer[h] = "open"
    /\ inbox[h] = <<>>
    /\ peer' = [peer EXCEPT ![h] = "closed"]
    /\ UNCHANGED <<env_vars, config_vars, disk_vars, inbox, delivered, handler_vars>>

\* the client sends another request on the connection after the handler
\* has read from it
client_send_again(h, req) ==
    /\ pc[h] \notin {"none", "read"}
    /\ peer[h] = "open"
    /\ bytes_read[h] # <<>>
    /\ inbox[h] = <<>>
    /\ inbox' = [inbox EXCEPT ![h] = req]
    /\ UNCHANGED <<env_vars, config_vars, disk_vars, peer, delivered, handler_vars>>

\* the handler of connection h is at work on the stream
InFlight(h) == pc[h] \in {"read", "is_dir", "load", "write", "flush"}

\* the client resets the connection while the handler is at work: from then
\* on read, peer_addr, write and shutdown on the stream return Err
client_reset(h) ==
    /\ InFlight(h)
    /\ peer[h] \in {"open", "closed"}
    /\ faults < MaxFaults
    /\ peer' = [peer EXCEPT ![h] = "reset"]
    /\ faults' = faults + 1
    /\ UNCHANGED <<stderr, config_vars, disk_vars, inbox, delivered, handler_vars>>

(***************************************************************************)
(* The standard error stream stops taking output while the server runs.    *)
(***************************************************************************)
stderr_break ==
    /\ phase = "serving"
    /\ stderr = "open"
    /\ faults < MaxFaults
    /\ stderr' = "broken"
    /\ faults' = faults + 1
    /\ UNCHANGED <<config_vars, disk_vars, conn_vars, handler_vars>>

(***************************************************************************)
(* Server::get_path.                                                       *)
(***************************************************************************)
\* a resolver that tries the directory before the trailing separator
get_path_dir_first(u, page, root, d) ==
    IF MetadataOk(d, root \o u) /\ IsDir(d, root \o u)
    THEN root \o u \o <<"/">> \o page
    ELSE IF Last(u) = "/"
         THEN root \o u \o page
         ELSE root \o u

\* Server::get_path on a disk d that stays as it is during the call
get_path(u, page, root, d) ==
    IF Last(u) = "/"
    THEN root \o u \o page
    ELSE IF MetadataOk(d, root \o u) /\ IsDir(d, root \o u)
         THEN root \o u \o <<"/">> \o page
         ELSE root \o u

\* Server::get_path goes on to its second fs::metadata call
SecondLookup(u, root, d) == Last(u) # "/" /\ MetadataOk(d, root \o u)

(***************************************************************************)
(* Server::handle_connection.                                              *)
(***************************************************************************)
\* format!("HTTP/1.1 {}\r\n\r\n", http_result)
StatusLine(result) ==
    <<"H", "T", "T", "P", "/", "1", ".", "1", " ">> \o result \o <<"\r", "\n", "\r", "\n">>

Ok200 == <<"2", "0", "0", " ", "O", "K">>
NotFound404 == <<"4", "0", "4", " ", "N", "o", "t", " ", "F", "o", "u", "n", "d">>

\* the buffer after stream.read returned the bytes got
Buffer(got) == got \o Repeat(NUL, BufSize - Len(got))

\* a lookup that takes the first registered page, whatever its url
MatchingAny(pages, u) == IF pages = <<>> THEN <<>> ELSE <<pages[1]>>

\* a lookup that takes the first registered page whose url begins u
MatchingPrefix(pages, u) ==
    LET found == SelectSeq(pages, LAMBDA x :
                     Len(x.url) <= Len(u) /\ SubSeq(u, 1, Len(x.url)) = x.url)
    IN  IF found = <<>> THEN <<>> ELSE <<found[1]>>

\* a lookup that takes the last registered page whose url is u
MatchingLast(pages, u) ==
    LET found == SelectSeq(pages, LAMBDA x : x.url = u)
    IN  IF found = <<>> THEN <<>> ELSE <<found[Len(found)]>>

\* the first of the registered pages whose url is u, as a sequence of at most
\* one page
Matching(pages, u) ==
    LET found == SelectSeq(pages, LAMBDA x : x.url = u)
    IN  IF found = <<>> THEN <<>> ELSE <<found[1]>>

\* a loop that invokes the callback before it looks for the marker
RECURSIVE ApplyAnchorsEager(_, _, _, _, _)
ApplyAnchorsEager(text, anchors, outs, i, log) ==
    IF i > Len(anchors) THEN [text |-> text, calls |-> log]
    ELSE LET after == Replace(text, anchors[i].marker, outs[i])
         IN  ApplyAnchorsEager(after, anchors, outs, i + 1,
                               Append(log, [anchor |-> i,
                                            function |-> anchors[i].function,
                                            marker |-> anchors[i].marker,
                                            before |-> text,
                                            out |-> outs[i],
                                            after |-> after]))

\* a loop that invokes the callback again for the marker's second occurrence
RECURSIVE ApplyAnchorsPerOccurrence(_, _, _, _, _)
ApplyAnchorsPerOccurrence(text, anchors, outs, i, log) ==
    IF i > Len(anchors) THEN [text |-> text, calls |-> log]
    ELSE IF Contains(text, anchors[i].marker)
         THEN LET after == Replace(text, anchors[i].marker, outs[i])
                  entry == [anchor |-> i,
                            function |-> anchors[i].function,
                            marker |-> anchors[i].marker,
                            before |-> text,
                            out |-> outs[i],
                            after |-> after]
              IN  ApplyAnchorsPerOccurrence(after, anchors, outs, i + 1,
                      IF Contains(ReplaceFirst(text, anchors[i].marker, <<>>),
                                  anchors[i].marker)
                      THEN log \o <<entry, entry>>
                      ELSE Append(log, entry))
         ELSE ApplyAnchorsPerOccurrence(text, anchors, outs, i + 1, log)

\* a loop that takes the anchors from the last one to the first
RECURSIVE ApplyAnchorsBackwards(_, _, _, _, _)
ApplyAnchorsBackwards(text, anchors, outs, i, log) ==
    IF i > Len(anchors) THEN [text |-> text, calls |-> log]
    ELSE LET j == Len(anchors) + 1 - i
         IN  IF Contains(text, anchors[j].marker)
             THEN LET after == Replace(text, anchors[j].marker, outs[j])
                  IN  ApplyAnchorsBackwards(after, anchors, outs, i + 1,
                          Append(log, [anchor |-> j,
                                       function |-> anchors[j].function,
                                       marker |-> anchors[j].marker,
                                       before |-> text,
                                       out |-> outs[j],
                                       after |-> after]))
             ELSE ApplyAnchorsBackwards(text, anchors, outs, i + 1, log)

\* the loop over the anchors of the page from anchor i on: text is
\* string_file, outs[i] is what the callback of anchor i returns if it is
\* invoked, log lists the invocations so far
RECURSIVE ApplyAnchors(_, _, _, _, _)
ApplyAnchors(text, anchors, outs, i, log) ==
    IF i > Len(anchors) THEN [text |-> text, calls |-> log]
    ELSE IF Contains(text, anchors[i].marker)
         THEN LET after == Replace(text, anchors[i].marker, outs[i])
              IN  ApplyAnchors(after, anchors, outs, i + 1,
                               Append(log, [anchor |-> i,
                                            function |-> anchors[i].function,
                                            marker |-> anchors[i].marker,
                                            before |-> text,
                                            out |-> outs[i],
                                            after |-> after]))
         ELSE ApplyAnchors(text, anchors, outs, i + 1, log)

\* the handler reads once into its buffer, takes the second token as the url
\* and starts Server::get_path, up to its first fs::metadata call; unwrap
\* panics where the connection was reset.  n bytes are read, got are the
\* bytes, request_content is the decoded buffer.
handle_connection_read(h) ==
    /\ pc[h] = "read"
    /\ inbox[h] # <<>> \/ peer[h] \in {"closed", "reset"}
    /\ IF peer[h] = "reset"
       THEN /\ pc' = [pc EXCEPT ![h] = "panicked"]
            /\ UNCHANGED <<inbox, bytes_read, url, path>>
       ELSE \E n \in {IF Len(inbox[h]) < BufSize THEN Len(inbox[h]) ELSE BufSize} :
            \E got \in {SubSeq(inbox[h], 1, n)} :
            \E request_content \in {from_utf8_lossy(Buffer(got))} :
            \E tokens \in {split_whitespace(request_content)} :
                /\ inbox' = [inbox EXCEPT ![h] = SubSeq(@, n + 1, Len(@))]
                /\ bytes_read' = [bytes_read EXCEPT ![h] = got]
                /\ IF Len(tokens) < 2
                   THEN /\ pc' = [pc EXCEPT ![h] = "returned"]
                        /\ UNCHANGED <<url, path>>
                   ELSE /\ url' = [url EXCEPT ![h] = tokens[2]]
                        /\ IF SecondLookup(tokens[2], snap[h].root_dir, fs)
                           THEN /\ pc' = [pc EXCEPT ![h] = "is_dir"]
                                /\ UNCHANGED path
                           ELSE /\ pc' = [pc EXCEPT ![h] = "load"]
                                /\ path' = [path EXCEPT ![h] =
                                       get_path(tokens[2], snap[h].std_page,
                                                snap[h].root_dir, fs)]
    /\ UNCHANGED <<env_vars, config_vars, disk_vars, peer, delivered, snap, http_result,
                   file_read, file_contents, calls, response>>

\* Server::get_path from its second fs::metadata call on: unwrap panics where
\* that call fails
get_path_is_dir(h) ==
    /\ pc[h] = "is_dir"
    /\ IF ~MetadataOk(fs, snap[h].root_dir \o url[h])
       THEN /\ pc' = [pc EXCEPT ![h] = "panicked"]
            /\ UNCHANGED path
       ELSE /\ pc' = [pc EXCEPT ![h] = "load"]
            /\ path' = [path EXCEPT ![h] =
                   get_path(url[h], snap[h].std_page, snap[h].root_dir, fs)]
    /\ UNCHANGED <<env_vars, config_vars, disk_vars, conn_vars, snap, bytes_read, url,
                   http_result, file_read, file_contents, calls, response>>

\* the debug output of the handler panics: peer_addr().unwrap() on a
\* connection that was reset, or eprintln! on a standard error stream that
\* takes no output
LogFails(dbg, p, err) == dbg /\ (p = "reset" \/ err = "broken")

\* a handler that holds the Server srv reads the file, writes its debug
\* output, applies the anchors of the matching page and builds the response
handle_connection_load_as(h, srv) ==
    /\ pc[h] = "load"
    /\ LET file == FsRead(fs, path[h])
           result == IF file.ok THEN Ok200 ELSE NotFound404
           page == Matching(srv.dynamic_pages, url[h])
       IN  /\ file_read' = [file_read EXCEPT ![h] = file]
           /\ http_result' = [http_result EXCEPT ![h] = result]
           /\ IF LogFails(srv.debug, peer[h], stderr)
              THEN /\ pc' = [pc EXCEPT ![h] = "panicked"]
                   /\ file_contents' = [file_contents EXCEPT ![h] = file.bytes]
                   /\ UNCHANGED <<calls, response>>
              ELSE IF page = <<>>
              THEN /\ pc' = [pc EXCEPT ![h] = "write"]
                   /\ file_contents' = [file_contents EXCEPT ![h] = file.bytes]
                   /\ calls' = calls
                   /\ response' = [response EXCEPT ![h] =
                          StatusLine(result) \o file.bytes]
              ELSE \E outs \in [1..Len(page[1].anchors) -> Outputs] :
                     LET done == ApplyAnchors(from_utf8_lossy(file.bytes),
                                              page[1].anchors, outs, 1, <<>>)
                     IN  /\ pc' = [pc EXCEPT ![h] = "write"]
                         /\ file_contents' = [file_contents EXCEPT ![h] =
                                as_bytes(done.text)]
                         /\ calls' = [calls EXCEPT ![h] = done.calls]
                         /\ response' = [response EXCEPT ![h] =
                                StatusLine(result) \o as_bytes(done.text)]
    /\ UNCHANGED <<env_vars, config_vars, disk_vars, conn_vars, snap, bytes_read, url, path>>

\* the handler of connection h does so with its clone of the Server
handle_connection_load(h) == handle_connection_load_as(h, snap[h])

\* a write whose failure ends the whole process, as in a build that aborts
\* on panic
handle_connection_write_abort(h) ==
    /\ pc[h] = "write"
    /\ IF peer[h] = "reset"
       THEN /\ pc' = [pc EXCEPT ![h] = "panicked"]
            /\ phase' = "panicked"
            /\ UNCHANGED delivered
       ELSE /\ \E n \in {k \in 1..Len(response[h]) : Len(response[h]) - k <= MaxShortfall} :
                   delivered' = [delivered EXCEPT ![h] = SubSeq(response[h], 1, n)]
            /\ pc' = [pc EXCEPT ![h] = "flush"]
            /\ UNCHANGED phase
    /\ UNCHANGED <<env_vars, server, call, disk_vars, peer, inbox, snap, bytes_read, url,
                   path, http_result, file_read, file_contents, calls, response>>

\* a handler that goes back to read where the client sent more
handle_connection_keep_alive(h) ==
    /\ pc[h] = "flush"
    /\ pc' = [pc EXCEPT ![h] = IF peer[h] = "reset" THEN "panicked"
                               ELSE IF inbox[h] # <<>> THEN "read"
                               ELSE "closed"]
    /\ UNCHANGED <<env_vars, config_vars, disk_vars, conn_vars, snap, bytes_read, url, path,
                   http_result, file_read, file_contents, calls, response>>

\* what one stream.write of a buffer of len bytes may return
WriteCounts(len) == {n \in 1..len : len - n <= MaxShortfall}

\* stream.write(&response): some bytes of the response are written; expect
\* panics where the connection was reset
handle_connection_write(h) ==
    /\ pc[h] = "write"
    /\ IF peer[h] = "reset"
       THEN /\ pc' = [pc EXCEPT ![h] = "panicked"]
            /\ UNCHANGED delivered
       ELSE /\ \E n \in WriteCounts(Len(response[h])) :
                   delivered' = [delivered EXCEPT ![h] = SubSeq(response[h], 1, n)]
            /\ pc' = [pc EXCEPT ![h] = "flush"]
    /\ UNCHANGED <<env_vars, config_vars, disk_vars, peer, inbox, snap, bytes_read, url, path,
                   http_result, file_read, file_contents, calls, response>>

\* stream.flush(), which does nothing on a TcpStream, and
\* stream.shutdown(Both), where expect panics if the connection was reset
handle_connection_shutdown(h) ==
    /\ pc[h] = "flush"
    /\ pc' = [pc EXCEPT ![h] = IF peer[h] = "reset" THEN "panicked" ELSE "closed"]
    /\ UNCHANGED <<env_vars, config_vars, disk_vars, conn_vars, snap, bytes_read, url, path,
                   http_result, file_read, file_contents, calls, response>>

Next ==
    \/ \E b \in BOOLEAN : debug(b)
    \/ \E s \in StdPages : std_page(s)
    \/ \E p \in DynamicPages : insert_dynamic_page(p)
    \/ \E p \in RootDirs : root_dir(p)
    \/ root_dir_is_dir
    \/ \E p \in VolatilePaths, e \in NewEntries : fs_change(p, e)
    \/ run
    \/ \E h \in Conns : accept(h)
    \/ \E h \in Conns, req \in Requests : client_send(h, req)
    \/ \E h \in Conns : client_close(h)
    \/ \E h \in Conns, req \in LaterRequests : client_send_again(h, req)
    \/ \E h \in Conns : client_reset(h)
    \/ stderr_break
    \/ \E h \in Conns : handle_connection_read(h)
    \/ \E h \in Conns : get_path_is_dir(h)
    \/ \E h \in Conns : handle_connection_load(h)
    \/ \E h \in Conns : handle_connection_write(h)
    \/ \E h \in Conns : handle_connection_shutdown(h)

Spec == Init /\ [][Next]_vars

(***************************************************************************)
(* The host program and the server with the first connection only: what    *)
(* one handler does, on every configuration and under every change of the  *)
(* disk, without the handlers of other connections beside it.              *)
(***************************************************************************)
NextOne ==
    \/ \E b \in BOOLEAN : debug(b)
    \/ \E s \in StdPages : std_page(s)
    \/ \E p \in DynamicPages : insert_dynamic_page(p)
    \/ \E p \in RootDirs : root_dir(p)
    \/ root_dir_is_dir
    \/ \E p \in VolatilePaths, e \in NewEntries : fs_change(p, e)
    \/ run
    \/ accept(1)
    \/ \E req \in Requests : client_send(1, req)
    \/ client_close(1)
    \/ \E req \in LaterRequests : client_send_again(1, req)
    \/ client_reset(1)
    \/ stderr_break
    \/ handle_connection_read(1)
    \/ get_path_is_dir(1)
    \/ handle_connection_load(1)
    \/ handle_connection_write(1)
    \/ handle_connection_shutdown(1)

SpecOne == Init /\ [][NextOne]_vars

(***************************************************************************)
(* The server at work on its connections: Server::run was called with one  *)
(* page registered for "/" and with debug on or off, and the handlers of    *)
(* MaxConn connections run side by side, under every change of the disk,   *)
(* every reset and every failure of the standard error stream.             *)
(***************************************************************************)
InitPair ==
    \E dbg \in BOOLEAN :
        /\ phase = "serving"
        /\ server = [new("127.0.0.1", 8080) EXCEPT
                         !.debug = dbg,
                         !.dynamic_pages =
                             <<DynamicPage(<<"/">>, <<Anchor(<<"a">>, "f"),
                                                      Anchor(<<"c">>, "g")>>)>>]
        /\ call = NoCall
        /\ fs = InitialDisk
        /\ changes = 0
        /\ pc = [h \in Conns |-> "none"]
        /\ snap = [h \in Conns |-> new("127.0.0.1", 8080)]
        /\ peer = [h \in Conns |-> "none"]
        /\ inbox = [h \in Conns |-> <<>>]
        /\ bytes_read = [h \in Conns |-> <<>>]
        /\ url = [h \in Conns |-> <<>>]
        /\ path = [h \in Conns |-> <<>>]
        /\ http_result = [h \in Conns |-> <<>>]
        /\ file_read = [h \in Conns |-> [ok |-> FALSE, bytes |-> <<>>]]
        /\ file_contents = [h \in Conns |-> <<>>]
        /\ calls = [h \in Conns |-> <<>>]
        /\ response = [h \in Conns |-> <<>>]
        /\ delivered = [h \in Conns |-> <<>>]
        /\ stderr = "open"
        /\ faults = 0

NextPair ==
    \/ \E p \in VolatilePaths, e \in NewEntries : fs_change(p, e)
    \/ stderr_break
    \/ \E h \in Conns : accept(h)
    \/ \E h \in Conns, req \in Requests : client_send(h, req)
    \/ \E h \in Conns : client_close(h)
    \/ \E h \in Conns : client_reset(h)
    \/ \E h \in Conns : handle_connection_read(h)
    \/ \E h \in Conns : get_path_is_dir(h)
    \/ \E h \in Conns : handle_connection_load(h)
    \/ \E h \in Conns : handle_connection_write(h)
    \/ \E h \in Conns : handle_connection_shutdown(h)

SpecPair == InitPair /\ [][NextPair]_vars

\* the next step of the thread that runs Server::handle_connection for
\* connection h
handle_connection(h) ==
    \/ handle_connection_read(h)
    \/ get_path_is_dir(h)
    \/ handle_connection_load(h)
    \/ handle_connection_write(h)
    \/ handle_connection_shutdown(h)

\* the operating system runs every thread that can take a step: a handler
\* whose next step is possible takes it
Fairness == \A h \in Conns : WF_vars(handle_connection(h))

SpecFair == InitPair /\ [][NextPair]_vars /\ Fairness

(***************************************************************************)
(* The substitution on its own: the server is running with one page        *)
(* registered for "/", whose anchors are any one or two of the markers     *)
(* below, and ./index.html holds any text of at most MaxText characters.   *)
(* One client asks for "/".                                                *)
(***************************************************************************)
IndexHtml == <<".", "/", "i", "n", "d", "e", "x", ".", "h", "t", "m", "l">>

Texts == UNION {[1..n -> {"a", "b"}] : n \in 0..MaxText}

Markers == {<<>>, <<"a">>, <<"a", "a">>, <<"a", "b">>, <<"c">>}

AnchorLists ==
    {<<Anchor(m, "f")>> : m \in Markers}
    \cup {<<Anchor(m1, "f"), Anchor(m2, "g")>> : m1 \in Markers, m2 \in Markers}

InitSubst ==
    \E anchors \in AnchorLists, text \in Texts :
        /\ phase = "serving"
        /\ server = [new("127.0.0.1", 8080) EXCEPT
                         !.dynamic_pages = <<DynamicPage(<<"/">>, anchors)>>]
        /\ call = NoCall
        /\ fs = [InitialDisk EXCEPT ![IndexHtml] = File(text)]
        /\ changes = 0
        /\ pc = [h \in Conns |-> "none"]
        /\ snap = [h \in Conns |-> new("127.0.0.1", 8080)]
        /\ peer = [h \in Conns |-> "none"]
        /\ inbox = [h \in Conns |-> <<>>]
        /\ bytes_read = [h \in Conns |-> <<>>]
        /\ url = [h \in Conns |-> <<>>]
        /\ path = [h \in Conns |-> <<>>]
        /\ http_result = [h \in Conns |-> <<>>]
        /\ file_read = [h \in Conns |-> [ok |-> FALSE, bytes |-> <<>>]]
        /\ file_contents = [h \in Conns |-> <<>>]
        /\ calls = [h \in Conns |-> <<>>]
        /\ response = [h \in Conns |-> <<>>]
        /\ delivered = [h \in Conns |-> <<>>]
        /\ stderr = "open"
        /\ faults = 0
    /\ stderr = "open"
    /\ faults = 0

NextSubst ==
    \/ accept(1)
    \/ client_send(1, <<"G", " ", "/", " ", "H", "\r", "\n">>)
    \/ handle_connection_read(1)
    \/ handle_connection_load(1)
    \/ handle_connection_write(1)
    \/ handle_connection_shutdown(1)

SpecSubst == InitSubst /\ [][NextSubst]_vars

(***************************************************************************)
(* The properties.                                                         *)
(***************************************************************************)
\* the handler of connection h has built its response
Composed(h) == pc[h] \in {"write", "flush", "closed"}

\* the handler of connection h takes the step that loads the file
Loads(h) == pc[h] = "load" /\ pc'[h] = "write"

\* no page of the registry is registered for the url u
NoPageFor(pages, u) == \A i \in 1..Len(pages) : pages[i].url # u

\* C1: where the resolved path names a file when the handler reads it and no
\* registered page has the requested url, the status is 200 OK and the body
\* of the response is the bytes of the file, unchanged.
C1_StaticFileServed ==
    [][\A h \in Conns :
         (/\ Loads(h)
          /\ Lookup(fs, path[h]).kind = "file"
          /\ NoPageFor(snap[h].dynamic_pages, url[h]))
         => /\ http_result'[h] = <<"2", "0", "0", " ", "O", "K">>
            /\ file_contents'[h] = Lookup(fs, path[h]).bytes
            /\ response'[h] = StatusLine(http_result'[h]) \o Lookup(fs, path[h]).bytes]_vars

\* a file with a byte that is not valid UTF-8 was served as it is, while
\* pages were registered for other urls
C1_Witness ==
    \E h \in Conns :
        /\ Composed(h)
        /\ file_read[h].ok
        /\ \E i \in 1..Len(file_read[h].bytes) : file_read[h].bytes[i] = "xFF"
        /\ snap[h].dynamic_pages # <<>>
        /\ NoPageFor(snap[h].dynamic_pages, url[h])
        /\ response[h] = StatusLine(Ok200) \o file_read[h].bytes

\* C2: where the resolved path cannot be read as a file, the status is
\* 404 Not Found and the body of the response is empty, whatever the
\* registry holds.
C2_NotFoundEmpty ==
    [][\A h \in Conns :
         (Loads(h) /\ Lookup(fs, path[h]).kind # "file")
         => /\ http_result'[h] = NotFound404
            /\ file_contents'[h] = <<>>
            /\ response'[h] = StatusLine(NotFound404)]_vars

\* C6: a call of Server::root_dir whose argument named no directory at any
\* moment of the call returns an error and leaves the root as it was.
C6_RootDirRejected ==
    (call.result # "none" /\ ~call.ever_dir)
    => /\ call.result \in {"Err: Does not exists", "Err: Not a directory"}
       /\ server.root_dir = call.before

\* the three cases of the path resolver, on the disk as it is
ResolverRule(u, d, r, disk) ==
    IF u[Len(u)] = "/" THEN r \o u \o d
    ELSE IF Lookup(disk, r \o u).kind = "dir" THEN r \o u \o <<"/">> \o d
    ELSE r \o u

\* C7: when Server::get_path returns, its result is root + url + default page
\* for a url that ends with the separator, else root + url + separator +
\* default page where root + url is a directory on disk, else root + url.
C7_PathResolved ==
    [][\A h \in Conns :
         (pc[h] \in {"read", "is_dir"} /\ pc'[h] = "load")
         => /\ url'[h] # <<>>
            /\ path'[h] = ResolverRule(url'[h], snap[h].std_page,
                                       snap[h].root_dir, fs)]_vars

\* the resolver met a directory and added the separator and the default page
C7_Witness ==
    \E h \in Conns :
        /\ pc[h] = "load"
        /\ Last(url[h]) # "/"
        /\ path[h] = snap[h].root_dir \o url[h] \o <<"/">> \o snap[h].std_page

\* the handler of connection h has returned from its read
HasRead(h) == pc[h] \notin {"none", "read"}

\* the whitespace-delimited tokens of the bytes that were read
TokensRead(h) == split_whitespace(from_utf8_lossy(bytes_read[h]))

\* C8: the url the handler resolves and matches is the second
\* whitespace-delimited token of the bytes that were read.
C8_UrlIsSecondToken ==
    \A h \in Conns :
        (HasRead(h) /\ Len(TokensRead(h)) >= 2) => url[h] = TokensRead(h)[2]

\* C9: a connection is closed only after the whole response was written: the
\* status line with 200 OK or 404 Not Found, then the body.
C9_WholeResponseDelivered ==
    \A h \in Conns :
        pc[h] = "closed"
        => /\ http_result[h] \in {Ok200, NotFound404}
           /\ delivered[h] = StatusLine(http_result[h]) \o file_contents[h]

\* C10: where the bytes that were read hold fewer than two tokens, the
\* handler returns at once: it reads no file, invokes no callback and writes
\* nothing.
C10_NoTokenNoResponse ==
    \A h \in Conns :
        (HasRead(h) /\ Len(TokensRead(h)) < 2)
        => /\ pc[h] = "returned"
           /\ calls[h] = <<>>
           /\ delivered[h] = <<>>

(***************************************************************************)
(* The properties of the substitution.                                     *)
(***************************************************************************)
\* the page whose anchors are applied for connection h: the first registered
\* page with the requested url, as a sequence of at most one page
PageOf(h) ==
    LET pages == snap[h].dynamic_pages
        hits == {i \in 1..Len(pages) : pages[i].url = url[h]}
    IN  IF hits = {} THEN <<>>
        ELSE <<pages[CHOOSE i \in hits : \A j \in hits : i <= j]>>

AnchorsOf(h) == IF PageOf(h) = <<>> THEN <<>> ELSE PageOf(h)[1].anchors

\* the invocations of the callback of anchor i for connection h
InvocationsOf(h, i) == SelectSeq(calls[h], LAMBDA e : e.anchor = i)

\* the text the substitution has reached when the turn of anchor i comes: the
\* decoded file content with the replacements of the anchors before i
RECURSIVE TextAt(_, _)
TextAt(h, i) ==
    IF i = 1 THEN from_utf8_lossy(file_read[h].bytes)
    ELSE IF InvocationsOf(h, i - 1) = <<>> THEN TextAt(h, i - 1)
         ELSE Last(InvocationsOf(h, i - 1)).after

\* where pat occurs in s from index i on, left to right, no occurrence
\* overlapping the one before it
RECURSIVE Occurrences(_, _, _)
Occurrences(s, pat, i) ==
    IF i > Len(s) + 1 THEN <<>>
    ELSE IF MatchesAt(s, pat, i)
         THEN <<i>> \o Occurrences(s, pat, i + (IF pat = <<>> THEN 1 ELSE Len(pat)))
         ELSE Occurrences(s, pat, i + 1)

\* r is s with out in place of each occurrence of pat, the rest as it was
HasOutputAt(r, s, pat, out) ==
    LET occ == Occurrences(s, pat, 1)
        delta == Len(out) - Len(pat)
        Covered(j) == \E k \in 1..Len(occ) : occ[k] <= j /\ j < occ[k] + Len(pat)
        Before(j) == Cardinality({k \in 1..Len(occ) : occ[k] <= j})
    IN  /\ Len(r) = Len(s) + Len(occ) * delta
        /\ \A k \in 1..Len(occ) :
               SubSeq(r, occ[k] + (k - 1) * delta,
                      occ[k] + (k - 1) * delta + Len(out) - 1) = out
        /\ \A j \in 1..Len(s) : ~Covered(j) => r[j + Before(j) * delta] = s[j]

NoCommonChar(a, b) == \A i \in 1..Len(a), j \in 1..Len(b) : a[i] # b[j]

\* C3, as stated: where a marker of the matched page occurs in the file
\* content, the body of the response has no occurrence of it and has the
\* callback's output at each place where it occurred.
C3_MarkerGone ==
    \A h \in Conns :
        (Composed(h) /\ file_read[h].ok) =>
            \A i \in 1..Len(AnchorsOf(h)) :
                LET m == AnchorsOf(h)[i].marker
                    content == from_utf8_lossy(file_read[h].bytes)
                    body == from_utf8_lossy(file_contents[h])
                IN  Occurrences(content, m, 1) # <<>>
                    => /\ ~Contains(body, m)
                       /\ \E k \in 1..Len(calls[h]) :
                              /\ calls[h][k].anchor = i
                              /\ HasOutputAt(body, content, m, calls[h][k].out)

\* C3, amended: where the non-empty marker of an anchor of the matched page
\* occurs in the text reached at the anchor's turn, the text after the
\* anchor's turn has the callback's output in place of each occurrence; it
\* has no occurrence of the marker where the output is not empty and has no
\* character of the marker.  The body is the text after the last turn.
C3_MarkerReplaced ==
    \A h \in Conns :
        (Composed(h) /\ PageOf(h) # <<>>) =>
            /\ \A i \in 1..Len(AnchorsOf(h)) :
                   LET m == AnchorsOf(h)[i].marker
                       text == TextAt(h, i)
                       inv == InvocationsOf(h, i)
                   IN  (m # <<>> /\ Occurrences(text, m, 1) # <<>>)
                       => /\ inv # <<>>
                          /\ HasOutputAt(inv[1].after, text, m, inv[1].out)
                          /\ (inv[1].out # <<>> /\ NoCommonChar(inv[1].out, m))
                             => ~Contains(inv[1].after, m)
            /\ file_contents[h] = as_bytes(TextAt(h, Len(AnchorsOf(h)) + 1))

\* a marker that occurred twice was replaced by an output without its
\* characters, and is gone
C3_Witness ==
    \E h \in Conns :
        /\ Composed(h)
        /\ \E i \in 1..Len(AnchorsOf(h)) :
               /\ AnchorsOf(h)[i].marker # <<>>
               /\ Len(Occurrences(TextAt(h, i), AnchorsOf(h)[i].marker, 1)) >= 2
               /\ InvocationsOf(h, i) # <<>>
               /\ InvocationsOf(h, i)[1].out # <<>>
               /\ NoCommonChar(InvocationsOf(h, i)[1].out, AnchorsOf(h)[i].marker)
               /\ ~Contains(InvocationsOf(h, i)[1].after, AnchorsOf(h)[i].marker)

\* C4, as stated: the callback of an anchor whose marker is absent from the
\* file content is not invoked.
C4_AbsentFromFile ==
    \A h \in Conns :
        Composed(h) =>
            \A i \in 1..Len(AnchorsOf(h)) :
                ~Contains(from_utf8_lossy(file_read[h].bytes), AnchorsOf(h)[i].marker)
                => InvocationsOf(h, i) = <<>>

\* C4, amended: the callback of an anchor whose marker is absent from the
\* text reached at the anchor's turn (the file content as the anchors before
\* it have rewritten it) is not invoked.
C4_AbsentAtTurn ==
    \A h \in Conns :
        Composed(h) =>
            \A i \in 1..Len(AnchorsOf(h)) :
                ~Contains(TextAt(h, i), AnchorsOf(h)[i].marker)
                => InvocationsOf(h, i) = <<>>

\* the second anchor of a page was skipped after the first one was applied
C4_Witness ==
    \E h \in Conns :
        /\ Composed(h)
        /\ Len(AnchorsOf(h)) >= 2
        /\ InvocationsOf(h, 1) # <<>>
        /\ ~Contains(TextAt(h, 2), AnchorsOf(h)[2].marker)
        /\ InvocationsOf(h, 2) = <<>>

\* C5: for one request the callback of an anchor is invoked at most once, and
\* what that invocation returned stands at every occurrence of the marker.
C5_OnceForAllOccurrences ==
    \A h \in Conns :
        Composed(h) =>
            /\ \A k \in 1..Len(calls[h]) : calls[h][k].anchor \in 1..Len(AnchorsOf(h))
            /\ \A i \in 1..Len(AnchorsOf(h)) :
                   LET inv == InvocationsOf(h, i)
                   IN  /\ Len(inv) <= 1
                       /\ inv # <<>>
                          => HasOutputAt(inv[1].after, TextAt(h, i),
                                         AnchorsOf(h)[i].marker, inv[1].out)

\* a marker that occurred twice got the output of one invocation at both
\* places
C5_Witness ==
    \E h \in Conns :
        /\ Composed(h)
        /\ \E i \in 1..Len(AnchorsOf(h)) :
               /\ Len(Occurrences(TextAt(h, i), AnchorsOf(h)[i].marker, 1)) >= 2
               /\ Len(InvocationsOf(h, i)) = 1
               /\ InvocationsOf(h, i)[1].out # <<>>
               /\ InvocationsOf(h, i)[1].after
                      = InvocationsOf(h, i)[1].out \o InvocationsOf(h, i)[1].out

(***************************************************************************)
(* The properties of the registry.                                         *)
(***************************************************************************)
\* a is the beginning of b
IsPrefix(a, b) == Len(a) <= Len(b) /\ SubSeq(b, 1, Len(a)) = a

\* the text the substitution ended with for connection h: the decoded file
\* content where no callback was invoked, else what the last replacement
\* produced
FinalText(h) ==
    IF calls[h] = <<>> THEN from_utf8_lossy(file_read[h].bytes)
    ELSE Last(calls[h]).after

\* C11: the substitution is applied to a request exactly where some
\* registered page has the requested url, character for character: then the
\* body is the re-encoded text of the substitution, else no callback is
\* invoked and the body is the bytes that were read from the file.
C11_ExactUrlMatch ==
    \A h \in Conns :
        Composed(h) =>
            IF NoPageFor(snap[h].dynamic_pages, url[h])
            THEN calls[h] = <<>> /\ file_contents[h] = file_read[h].bytes
            ELSE file_contents[h] = as_bytes(FinalText(h))

\* a page is registered for a url that begins the requested url and resolves
\* to the same file, and the file was served as it is, with its byte that is
\* not valid UTF-8
C11_Witness ==
    \E h \in Conns :
        /\ Composed(h)
        /\ file_read[h].ok
        /\ \E i \in 1..Len(snap[h].dynamic_pages) :
               LET u == snap[h].dynamic_pages[i].url
               IN  /\ u # url[h]
                   /\ IsPrefix(u, url[h])
                   /\ get_path(u, snap[h].std_page, snap[h].root_dir, fs) = path[h]
        /\ NoPageFor(snap[h].dynamic_pages, url[h])
        /\ \E k \in 1..Len(file_contents[h]) : file_contents[h][k] = "xFF"
        /\ file_contents[h] = file_read[h].bytes

\* the indices of the registered pages of connection h that have the
\* requested url
Hits(h) ==
    {i \in 1..Len(snap[h].dynamic_pages) : snap[h].dynamic_pages[i].url = url[h]}

\* every callback invoked for connection h is the callback of an anchor of
\* the earliest page with the requested url, invoked at most once, exactly
\* where the anchor's marker occurs in the text reached at its turn
EarliestPageApplied(h) ==
    LET anchors == AnchorsOf(h)
    IN  /\ \A k \in 1..Len(calls[h]) :
               /\ calls[h][k].anchor \in 1..Len(anchors)
               /\ calls[h][k].marker = anchors[calls[h][k].anchor].marker
               /\ calls[h][k].function = anchors[calls[h][k].anchor].function
               /\ \A j \in 1..Len(calls[h]) :
                      calls[h][j].anchor = calls[h][k].anchor => j = k
        /\ \A i \in 1..Len(anchors) :
               InvocationsOf(h, i) # <<>> <=> Contains(TextAt(h, i), anchors[i].marker)
        /\ file_contents[h] = as_bytes(TextAt(h, Len(anchors) + 1))

\* C12: registering a page appends it to the registry, whatever the registry
\* holds, and the anchors applied to a request are those of the earliest
\* registered page with the requested url: no callback of a later page with
\* that url is invoked.
C12_FirstMatchWins ==
    /\ [](\A h \in Conns : (Composed(h) /\ Hits(h) # {}) => EarliestPageApplied(h))
    /\ [][server'.dynamic_pages # server.dynamic_pages
          => \E p \in DynamicPages :
                 server'.dynamic_pages = Append(server.dynamic_pages, p)]_vars

\* two pages are registered for the requested url; a marker of the later one
\* occurs in the file and is none of the earlier one's, and its callback was
\* not invoked
C12_Witness ==
    \E h \in Conns :
        /\ Composed(h)
        /\ file_read[h].ok
        /\ \E i \in Hits(h), j \in Hits(h) :
               /\ i < j
               /\ \E a \in 1..Len(snap[h].dynamic_pages[j].anchors) :
                      LET m == snap[h].dynamic_pages[j].anchors[a].marker
                      IN  /\ Contains(from_utf8_lossy(file_read[h].bytes), m)
                          /\ \A b \in 1..Len(snap[h].dynamic_pages[i].anchors) :
                                 snap[h].dynamic_pages[i].anchors[b].marker # m
                          /\ \A k \in 1..Len(calls[h]) : calls[h][k].marker # m
        /\ file_contents[h] = file_read[h].bytes

(***************************************************************************)
(* The properties of the connections.                                      *)
(***************************************************************************)
\* C13: the handler of a connection works on the clone of the Server that
\* was taken when the connection was accepted; no step changes the clone of a
\* connection that was accepted, and no step changes the Server while it
\* serves.
C13_OwnCopy ==
    [][/\ \A h \in Conns : (pc[h] = "none" /\ pc'[h] # "none") => snap'[h] = server
       /\ \A h \in Conns : pc[h] # "none" => snap'[h] = snap[h]
       /\ phase = "serving" => server' = server]_vars

\* the first handler has invoked a callback and closed its connection while
\* the second one is at work, and both hold the settings of the Server
C13_Witness ==
    /\ phase = "serving"
    /\ server.dynamic_pages # <<>>
    /\ pc[1] = "closed"
    /\ calls[1] # <<>>
    /\ pc[2] \in {"load", "write"}
    /\ snap[1] = server
    /\ snap[2] = server

\* the client of connection h has sent a request with a path token, which the
\* handler has not read yet
SentPath(h) ==
    /\ pc[h] = "read"
    /\ Len(split_whitespace(from_utf8_lossy(inbox[h]))) >= 2

\* the handler of connection h wrote bytes of its response and shut the
\* connection down
Answered(h) == pc[h] = "closed" /\ delivered[h] # <<>>

\* C14: a connection whose client sent a request with a path token, and does
\* not reset the connection, is answered and closed in the end, whatever the
\* other connections do.
C14_EventuallyAnswered ==
    \A h \in Conns : SentPath(h) ~> (Answered(h) \/ peer[h] = "reset")

\* all there is of connection h and its handler
ConnState(h) ==
    <<pc[h], snap[h], peer[h], inbox[h], bytes_read[h], url[h], path[h],
      http_result[h], file_read[h], file_contents[h], calls[h], response[h],
      delivered[h]>>

\* the handler of connection h panics in this step on a stream that was reset
FailsOnReset(h) == pc[h] # "panicked" /\ pc'[h] = "panicked" /\ peer[h] = "reset"

\* the next step of the handler of connection h can be taken, and the loop
\* can accept connection h if it is the next one to come
NotHeldUp(h) ==
    /\ pc[h] \in {"is_dir", "load", "write", "flush"} => ENABLED handle_connection(h)
    /\ (pc[h] = "read" /\ (inbox[h] # <<>> \/ peer[h] # "open"))
       => ENABLED handle_connection_read(h)
    /\ (pc[h] = "none" /\ \A g \in Conns : g < h => pc[g] # "none")
       => ENABLED accept(h)

\* C15: the step in which a handler panics on a read, write or shutdown that
\* failed leaves the Server, the loop and every other connection as they
\* were; and beside a handler that panicked the loop still accepts the next
\* connection and every other handler can take its next step.
C15_FailureIsLocal ==
    /\ [][\A h \in Conns :
            FailsOnReset(h)
            => /\ phase' = phase
               /\ server' = server
               /\ \A g \in Conns \ {h} : ConnState(g)' = ConnState(g)]_vars
    /\ [](\A h \in Conns :
            pc[h] = "panicked" => \A g \in Conns \ {h} : NotHeldUp(g))

\* the first handler panicked in its write on a connection that was reset;
\* the second connection got its whole response and was closed
C15_Witness ==
    /\ pc[1] = "panicked"
    /\ peer[1] = "reset"
    /\ response[1] # <<>>
    /\ delivered[1] = <<>>
    /\ pc[2] = "closed"
    /\ response[2] # <<>>
    /\ delivered[2] = response[2]

\* the handler of connection h has ended: it shut the connection down,
\* returned without a response, or panicked and dropped the stream
Ended(h) == pc[h] \in {"closed", "returned", "panicked"}

\* C16: the handler of a connection reads once, writes once at most, then
\* shuts the connection down, and from then on neither reads nor writes,
\* whatever else the client has sent.
C16_OneResponseThenClosed ==
    [][\A h \in Conns :
         /\ pc[h] \notin {"none", "read"} => pc'[h] # "read"
         /\ (Len(inbox'[h]) < Len(inbox[h]) \/ bytes_read'[h] # bytes_read[h])
            => (pc[h] = "read" /\ pc'[h] # "read")
         /\ delivered'[h] # delivered[h]
            => (pc[h] = "write" /\ delivered[h] = <<>> /\ pc'[h] = "flush")
         /\ pc[h] = "flush" => pc'[h] \in {"flush", "closed", "panicked"}
         /\ Ended(h)
            => /\ pc'[h] = pc[h]
               /\ bytes_read'[h] = bytes_read[h]
               /\ delivered'[h] = delivered[h]
               /\ Len(inbox'[h]) >= Len(inbox[h])]_vars

\* the client sent two requests; the first was answered, the connection was
\* shut down, and the second lies unread
C16_Witness ==
    \E h \in Conns :
        /\ pc[h] = "closed"
        /\ Len(split_whitespace(from_utf8_lossy(bytes_read[h]))) >= 2
        /\ Len(split_whitespace(from_utf8_lossy(inbox[h]))) >= 2
        /\ delivered[h] = response[h]
        /\ response[h] = StatusLine(http_result[h]) \o file_contents[h]

(***************************************************************************)
(* The properties of the order of the anchors.                             *)
(***************************************************************************)
\* what the callback of anchor i returned for connection h
OutOf(h, i) ==
    IF InvocationsOf(h, i) = <<>> THEN <<>> ELSE InvocationsOf(h, i)[1].out

\* the fold over the first i anchors of the matched page, left to right: the
\* text is the decoded file content, and each anchor whose marker occurs in
\* the text has all its occurrences replaced by its callback's output
RECURSIVE Fold(_, _)
Fold(h, i) ==
    IF i = 0 THEN from_utf8_lossy(file_read[h].bytes)
    ELSE IF Contains(Fold(h, i - 1), AnchorsOf(h)[i].marker)
         THEN Replace(Fold(h, i - 1), AnchorsOf(h)[i].marker, OutOf(h, i))
         ELSE Fold(h, i - 1)

\* C17: the body of the response is the left-to-right fold over the anchors
\* of the matched page; the callbacks are invoked in the order of the
\* anchors, each for the text that the anchors before it produced.
C17_FoldInOrder ==
    \A h \in Conns :
        (Composed(h) /\ PageOf(h) # <<>>) =>
            /\ file_contents[h] = as_bytes(Fold(h, Len(AnchorsOf(h))))
            /\ \A k \in 1..Len(calls[h]) :
                   /\ calls[h][k].anchor \in 1..Len(AnchorsOf(h))
                   /\ calls[h][k].before = Fold(h, calls[h][k].anchor - 1)
                   /\ calls[h][k].after = Fold(h, calls[h][k].anchor)
                   /\ \A j \in 1..Len(calls[h]) :
                          j < k => calls[h][j].anchor < calls[h][k].anchor
            /\ \A i \in 1..Len(AnchorsOf(h)) :
                   Contains(Fold(h, i - 1), AnchorsOf(h)[i].marker)
                   <=> InvocationsOf(h, i) # <<>>

\* the marker of the second anchor is not in the file and came with the
\* output of the first: both callbacks were invoked, the first one first,
\* and the body holds the output of the second
C17_Witness ==
    \E h \in Conns :
        /\ Composed(h)
        /\ Len(AnchorsOf(h)) = 2
        /\ ~Contains(from_utf8_lossy(file_read[h].bytes), AnchorsOf(h)[2].marker)
        /\ Len(calls[h]) = 2
        /\ calls[h][1].anchor = 1
        /\ calls[h][2].anchor = 2
        /\ calls[h][2].before = calls[h][1].after
        /\ calls[h][2].out # <<>>
        /\ file_contents[h] = as_bytes(calls[h][2].after)
        /\ file_contents[h] # file_read[h].bytes

(***************************************************************************)
(* The properties of the debug flag.                                       *)
(***************************************************************************)
\* the clone of the Server that connection h holds, with debug off
Quiet(h) == [snap[h] EXCEPT !.debug = FALSE]

\* C18: whatever the debug flag is, every step in which the handler loads the
\* file and builds its response is a step that the handler with debug off
\* can take from the same state: the same response, or the same lack of one.
\* (On a connection that was reset neither handler sends a byte: the one
\* with debug off panics in its write.)
C18_DebugOnlyLogs ==
    [][\A h \in Conns :
         handle_connection_load(h)
         => \/ handle_connection_load_as(h, Quiet(h))
            \/ peer[h] = "reset" /\ pc'[h] = "panicked"]_vars

(***************************************************************************)
(* The properties of the decoding.                                         *)
(***************************************************************************)
\* the bytes b are valid UTF-8 from index i on: characters of one byte, and
\* the three bytes of U+FFFD
RECURSIVE ValidFrom(_, _)
ValidFrom(b, i) ==
    IF i > Len(b) THEN TRUE
    ELSE IF b[i] \notin {"xFF", "xEF", "xBF", "xBD"} THEN ValidFrom(b, i + 1)
    ELSE /\ b[i] = "xEF"
         /\ i + 2 <= Len(b)
         /\ b[i + 1] = "xBF"
         /\ b[i + 2] = "xBD"
         /\ ValidFrom(b, i + 3)

ValidUtf8(b) == ValidFrom(b, 1)

\* a page was matched for connection h, the file was read, and no marker of
\* the page occurs in its decoded content
NoMarkerInFile(h) ==
    /\ Composed(h)
    /\ PageOf(h) # <<>>
    /\ file_read[h].ok
    /\ \A i \in 1..Len(AnchorsOf(h)) :
           ~Contains(from_utf8_lossy(file_read[h].bytes), AnchorsOf(h)[i].marker)

\* C19, as stated: where a page is matched and the file holds none of its
\* markers, the body of the response is the bytes of the file, whatever they
\* are.
C19_RawBytesKept ==
    \A h \in Conns : NoMarkerInFile(h) => file_contents[h] = file_read[h].bytes

\* C19, amended: where a page is matched and the file holds none of its
\* markers, no callback is invoked and the body is the re-encoded decoded
\* content: the bytes of the file where they are valid UTF-8, and other
\* bytes, with U+FFFD in place of each invalid part, where they are not.
C19_RawBytesKeptIfValid ==
    \A h \in Conns :
        NoMarkerInFile(h) =>
            /\ calls[h] = <<>>
            /\ file_contents[h] = as_bytes(from_utf8_lossy(file_read[h].bytes))
            /\ ValidUtf8(file_read[h].bytes) <=> file_contents[h] = file_read[h].bytes
            /\ ValidUtf8(file_contents[h])

\* a file with a byte that is not valid UTF-8 was served through a matched
\* page that has none of its markers in it: the body has the three bytes of
\* U+FFFD where the file has that byte
C19_Witness ==
    \E h \in Conns :
        /\ NoMarkerInFile(h)
        /\ AnchorsOf(h) # <<>>
        /\ \E k \in 1..Len(file_read[h].bytes) :
               /\ file_read[h].bytes[k] = "xFF"
               /\ SubSeq(file_contents[h], k, k + 2) = <<"xEF", "xBF", "xBD">>
               /\ SubSeq(file_contents[h], 1, k - 1) = SubSeq(file_read[h].bytes, 1, k - 1)

====
